---- MODULE Spec2Model ----
(***************************************************************************)
(* Model of src-tauri/src/lib.rs: the folder watcher (WatcherState, the    *)
(* watcher_* commands, the notify callback with its extension filter and   *)
(* debounce table) and the merge_hdr command.                              *)
(***************************************************************************)
EXTENDS Integers, Sequences, FiniteSets, TLC

\* Option::None
None == "None"

(***************************************************************************)
(* Bounds of the model.                                                    *)
(***************************************************************************)
\* the monotonic clock (Instant::now(), in ms) stops advancing here
MaxClock == 1000
\* most paths one raw event carries
MaxEventPaths == 2

\* Duration::from_millis(500)
DebounceMs == 500

\* amounts of time (ms) that pass between two steps
Deltas == {400, 500}
\* time (ms) that passes between two debounce checks of one callback
Gaps == {0, DebounceMs}

(***************************************************************************)
(* The file system the watcher commands see.                               *)
(***************************************************************************)
FolderInputs == {"/photos", "/other", "/notes.txt", "/missing"}

PathExists(p) == p \in {"/photos", "/other", "/notes.txt"}

PathIsDir(p) == p \in {"/photos", "/other"}

(***************************************************************************)
(* Errors, by the kind of the message the command returns.                 *)
(***************************************************************************)
InvalidFolder == "InvalidFolder"
NotConfigured == "NotConfigured"
AlreadyWatching == "AlreadyWatching"
WatchSetupError == "WatchSetupError"
LockError == "LockError"

Ok(v) == [ok |-> TRUE, val |-> v]

Err(e) == [ok |-> FALSE, val |-> e]

Unit == "()"

\* the four mutexes of WatcherState
Locks == {"watcher", "folder", "is_watching", "recent_events"}

(***************************************************************************)
(* Paths carried by raw events: a file stem and Path::extension(), which   *)
(* is None for a name without a dot and may be non-UTF-8.                  *)
(***************************************************************************)
NonUtf8 == "<non-utf8>"

EventPaths ==
    { [stem |-> "a", ext |-> "png"],
      [stem |-> "b", ext |-> "JPG"],
      [stem |-> "c", ext |-> "Jpeg"],
      [stem |-> "d", ext |-> "gif"],
      [stem |-> "e", ext |-> None],
      [stem |-> "f", ext |-> NonUtf8] }

\* OsStr::to_str: None when the bytes are not UTF-8
ToStr(ext) == IF ext = None \/ ext = NonUtf8 THEN None ELSE ext

\* str::to_lowercase on the extensions of the model
ToLowercase(s) ==
    CASE s = "JPG" -> "jpg"
      [] s = "Jpeg" -> "jpeg"
      [] OTHER -> s

\* a faulty variant: the extension is compared as it is spelled
ShouldProcessFile_CaseSensitive(path) ==
    LET e == ToStr(path.ext)
    IN  IF e = None THEN FALSE
        ELSE e \in {"png", "jpg", "jpeg"}

ShouldProcessFile(path) ==
    LET e == ToStr(path.ext)
    IN  IF e = None THEN FALSE
        ELSE ToLowercase(e) \in {"png", "jpg", "jpeg"}

\* Path::to_string_lossy: bytes that are not UTF-8 become U+FFFD
ToStringLossy(path) ==
    IF path.ext = None THEN "/photos/" \o path.stem
    ELSE IF path.ext = NonUtf8 THEN "/photos/" \o path.stem \o ".<U+FFFD>"
    ELSE "/photos/" \o path.stem \o "." \o path.ext

(***************************************************************************)
(* Raw events of the notify crate: EventKind and its paths.                *)
(***************************************************************************)
EventKinds ==
    { [tag |-> "Create", sub |-> "File"],
      [tag |-> "Modify", sub |-> "Data"],
      [tag |-> "Modify", sub |-> "Metadata"],
      [tag |-> "Modify", sub |-> "Name"],
      [tag |-> "Remove", sub |-> "File"],
      [tag |-> "Access", sub |-> "Close"],
      [tag |-> "Other", sub |-> "Other"] }

PathSeqs(paths) == UNION { [1..n -> paths] : n \in 0..MaxEventPaths }

\* Result<Event, notify::Error> handed to the callback
RawResults(kinds, paths) ==
    { [ok |-> TRUE, kind |-> k, paths |-> ps] : k \in kinds, ps \in PathSeqs(paths) }
    \cup { [ok |-> FALSE, kind |-> None, paths |-> << >>] }

\* a faulty variant: removals are let through as well
ShouldEmit_Remove(kind) == kind.tag \in {"Create", "Modify", "Remove"}

\* matches!(event.kind, EventKind::Create(_) | EventKind::Modify(_))
ShouldEmit(kind) == kind.tag \in {"Create", "Modify"}

(***************************************************************************)
(* State.                                                                  *)
(***************************************************************************)
VARIABLES
    watcher,        \* WatcherState.watcher: << >> (None) or <<the registered watch>>
    folder,         \* WatcherState.folder: None or the configured folder
    is_watching,    \* WatcherState.is_watching
    recent_events,  \* WatcherState.recent_events: path -> Instant of last accept
    poisoned,       \* the mutexes of WatcherState that are poisoned
    clock,          \* Instant::now(), ms
    ret,            \* what the latest step returned: [cmd, res]
    emitted,        \* the notifications the latest step emitted, in order
    seen,           \* << >>, or <<the raw event the callback got and what it did with it>>
    request,        \* the MergeRequest handed to merge_hdr
    merged,         \* << >>, or <<what merge_hdr returned>>
    ops,            \* what merge_hdr did, in order: decodes, averaging, directory, writes
    dirs,           \* the directories that exist
    files,          \* the output files that have been written
    analyze_paths,  \* the paths handed to analyze_images
    stats,          \* << >>, or <<what analyze_images returned>>
    notified,       \* history: path -> its notifications, in order
    since,          \* history: path -> what came since its latest notification
    pc,             \* thread -> where it is in the call it executes
    held,           \* mutex of WatcherState -> the thread holding it, or None
    local           \* thread -> the local variables of the call it executes

wvars == <<watcher, folder, is_watching, recent_events, poisoned, clock, ret, emitted>>

mvars == <<request, merged, ops, dirs, files>>

avars == <<analyze_paths, stats>>

hvars == <<notified, since>>

cvars == <<pc, held, local>>

vars == <<wvars, seen, mvars, avars, hvars, cvars>>

\* the threads that call into the library: two that run commands, and the
\* thread the watch delivers its raw events on
CommandThreads == {"c1", "c2"}
CallbackThread == "cb"
Threads == CommandThreads \cup {CallbackThread}

\* the locals of a thread that executes no call
NoLocal == [cmd |-> None]

\* WatcherState::default()
WatcherDefault ==
    /\ watcher = << >>
    /\ folder = None
    /\ is_watching = FALSE
    /\ recent_events = << >>
    /\ poisoned = {}

\* the directories there are before any merge
InitialDirs == {"/", "/in", "/out"}

\* no merge has been asked for
NoMerge ==
    /\ request = [paths |-> << >>, output_dir |-> None, output_exr |-> FALSE]
    /\ merged = << >>
    /\ ops = << >>
    /\ dirs = InitialDirs
    /\ files = {}

\* no analysis has been asked for
NoAnalysis ==
    /\ analyze_paths = << >>
    /\ stats = << >>

\* no raw event has been checked yet
NoHistory ==
    /\ notified = << >>
    /\ since = << >>

\* no call is executing, no mutex is held
Quiet ==
    /\ pc = [t \in Threads |-> "idle"]
    /\ held = [l \in Locks |-> None]
    /\ local = [t \in Threads |-> NoLocal]

Init ==
    /\ WatcherDefault
    /\ clock = 0
    /\ ret = [cmd |-> "init", res |-> Ok(Unit)]
    /\ emitted = << >>
    /\ seen = << >>
    /\ NoMerge
    /\ NoAnalysis
    /\ NoHistory
    /\ Quiet

(***************************************************************************)
(* debounce_check                                                          *)
(***************************************************************************)
\* Instant::duration_since saturates at zero
DurationSince(now, last) == IF now >= last THEN now - last ELSE 0

\* the map after HashMap::insert(path, now)
MapInsert(map, path, now) ==
    [p \in (DOMAIN map) \cup {path} |-> IF p = path THEN now ELSE map[p]]

\* a faulty variant: an event exactly one window after the last accept is suppressed
DebounceCheck_Strict(path, map, now, lockFails) ==
    IF lockFails THEN [accept |-> FALSE, map |-> map]
    ELSE IF path \in DOMAIN map /\ DurationSince(now, map[path]) <= DebounceMs
         THEN [accept |-> FALSE, map |-> map]
         ELSE [accept |-> TRUE, map |-> MapInsert(map, path, now)]

\* a faulty variant: a suppressed event is recorded too
DebounceCheck_Extends(path, map, now, lockFails) ==
    IF lockFails THEN [accept |-> FALSE, map |-> map]
    ELSE IF path \in DOMAIN map /\ DurationSince(now, map[path]) < DebounceMs
         THEN [accept |-> FALSE, map |-> MapInsert(map, path, now)]
         ELSE [accept |-> TRUE, map |-> MapInsert(map, path, now)]

\* [accept, map]: the value returned and the table afterwards
DebounceCheck(path, map, now, lockFails) ==
    IF lockFails THEN [accept |-> FALSE, map |-> map]
    ELSE IF path \in DOMAIN map /\ DurationSince(now, map[path]) < DebounceMs
         THEN [accept |-> FALSE, map |-> map]
         ELSE [accept |-> TRUE, map |-> MapInsert(map, path, now)]

(***************************************************************************)
(* The callback closure of watcher_start: the loop over event.paths.       *)
(* o is [map, out, now, checks]: the table, the notifications emitted, the *)
(* time and the calls of debounce_check made so far.                       *)
(***************************************************************************)
RECURSIVE ProcessPaths(_, _, _, _)
ProcessPaths(paths, o, gap, lockFails) ==
    IF paths = << >> THEN o
    ELSE LET path == Head(paths)
         IN  IF ~ShouldProcessFile(path)
             THEN ProcessPaths(Tail(paths), o, gap, lockFails)
             ELSE LET now == IF o.checks = << >> \/ o.now + gap > MaxClock
                             THEN o.now ELSE o.now + gap
                      d == DebounceCheck(path, o.map, now, lockFails)
                      call == [path |-> path, now |-> now, accept |-> d.accept,
                               before |-> o.map, after |-> d.map]
                  IN  ProcessPaths(Tail(paths),
                          [map |-> d.map,
                           out |-> IF d.accept
                                   THEN Append(o.out, ToStringLossy(path))
                                   ELSE o.out,
                           now |-> now,
                           checks |-> Append(o.checks, call)],
                          gap, lockFails)

CallbackOutcome(res, map, now, gap, lockFails) ==
    LET o == [map |-> map, out |-> << >>, now |-> now, checks |-> << >>]
    IN  IF ~res.ok THEN o
        ELSE IF ~ShouldEmit(res.kind) THEN o
        ELSE ProcessPaths(res.paths, o, gap, lockFails)

(***************************************************************************)
(* Commands.                                                               *)
(***************************************************************************)
\* a faulty variant: a running watch is moved to the new folder
WatcherSetFolder_Rewatches(f) ==
    /\ IF ~PathExists(f) \/ ~PathIsDir(f)
       THEN /\ ret' = [cmd |-> "set_folder", arg |-> f, res |-> Err(InvalidFolder)]
            /\ UNCHANGED <<folder, watcher>>
       ELSE IF "folder" \in poisoned
       THEN /\ ret' = [cmd |-> "set_folder", arg |-> f, res |-> Err(LockError)]
            /\ UNCHANGED <<folder, watcher>>
       ELSE /\ folder' = f
            /\ watcher' = IF watcher = << >> THEN watcher
                          ELSE << [folder |-> f, mode |-> "Recursive"] >>
            /\ ret' = [cmd |-> "set_folder", arg |-> f, res |-> Ok(Unit)]
    /\ emitted' = << >>
    /\ UNCHANGED <<is_watching, recent_events, poisoned, clock, seen, mvars, avars, hvars, cvars>>

WatcherSetFolder(f) ==
    /\ IF ~PathExists(f) \/ ~PathIsDir(f)
       THEN /\ ret' = [cmd |-> "set_folder", arg |-> f, res |-> Err(InvalidFolder)]
            /\ UNCHANGED folder
       ELSE IF "folder" \in poisoned
       THEN /\ ret' = [cmd |-> "set_folder", arg |-> f, res |-> Err(LockError)]
            /\ UNCHANGED folder
       ELSE /\ folder' = f
            /\ ret' = [cmd |-> "set_folder", arg |-> f, res |-> Ok(Unit)]
    /\ emitted' = << >>
    /\ UNCHANGED <<watcher, is_watching, recent_events, poisoned, clock, seen, mvars, avars, hvars, cvars>>

\* what the OS does to RecommendedWatcher::new and Watcher::watch
OsOutcomes == {"ok", "new_fails", "watch_fails"}

\* a faulty variant: the running flag is not looked at
StartResult_NoRunningCheck(os) ==
    IF "folder" \in poisoned THEN Err(LockError)
    ELSE IF folder = None THEN Err(NotConfigured)
    ELSE IF "is_watching" \in poisoned THEN Err(LockError)
    ELSE IF os = "new_fails" THEN Err(WatchSetupError)
    ELSE IF os = "watch_fails" THEN Err(WatchSetupError)
    ELSE IF "watcher" \in poisoned THEN Err(LockError)
    ELSE Ok(Unit)

\* the result of watcher_start
StartResult(os) ==
    IF "folder" \in poisoned THEN Err(LockError)
    ELSE IF folder = None THEN Err(NotConfigured)
    ELSE IF "is_watching" \in poisoned THEN Err(LockError)
    ELSE IF is_watching THEN Err(AlreadyWatching)
    ELSE IF os = "new_fails" THEN Err(WatchSetupError)
    ELSE IF os = "watch_fails" THEN Err(WatchSetupError)
    ELSE IF "watcher" \in poisoned THEN Err(LockError)
    ELSE Ok(Unit)

\* a faulty variant: the running flag is set before the watch is set up
WatcherStart_FlagFirst(os) ==
    /\ ret' = [cmd |-> "start", os |-> os, res |-> StartResult(os)]
    /\ IF StartResult(os).ok
       THEN /\ watcher' = << [folder |-> folder, mode |-> "Recursive"] >>
            /\ is_watching' = TRUE
       ELSE /\ UNCHANGED watcher
            /\ is_watching' = (is_watching \/ StartResult(os) = Err(WatchSetupError))
    /\ emitted' = << >>
    /\ UNCHANGED <<folder, recent_events, poisoned, clock, seen, mvars, avars, hvars, cvars>>

WatcherStart(os) ==
    /\ ret' = [cmd |-> "start", os |-> os, res |-> StartResult(os)]
    /\ IF StartResult(os).ok
       THEN /\ watcher' = << [folder |-> folder, mode |-> "Recursive"] >>
            /\ is_watching' = TRUE
       ELSE UNCHANGED <<watcher, is_watching>>
    /\ emitted' = << >>
    /\ UNCHANGED <<folder, recent_events, poisoned, clock, seen, mvars, avars, hvars, cvars>>

\* history: a watch has been stopped since the latest notification of each path
MarkStopped(h, stopped) == [p \in DOMAIN h |-> [h[p] EXCEPT !.stopped = @ \/ stopped]]

StopResult ==
    IF "watcher" \in poisoned THEN Err(LockError)
    ELSE IF "is_watching" \in poisoned THEN Err(LockError)
    ELSE Ok(Unit)

\* a faulty variant: stopping also forgets the configured folder
WatcherStop_ForgetsFolder ==
    /\ ret' = [cmd |-> "stop", res |-> StopResult]
    /\ IF StopResult.ok
       THEN /\ watcher' = << >>
            /\ is_watching' = FALSE
            /\ folder' = None
       ELSE UNCHANGED <<watcher, is_watching, folder>>
    /\ emitted' = << >>
    /\ since' = MarkStopped(since, StopResult.ok /\ watcher # << >>)
    /\ UNCHANGED <<recent_events, poisoned, clock, seen, mvars, avars, notified, cvars>>

\* a faulty variant: stopping empties the debounce table
WatcherStop_ClearsTable ==
    /\ ret' = [cmd |-> "stop", res |-> StopResult]
    /\ IF StopResult.ok
       THEN /\ watcher' = << >>
            /\ is_watching' = FALSE
            /\ recent_events' = << >>
       ELSE UNCHANGED <<watcher, is_watching, recent_events>>
    /\ emitted' = << >>
    /\ since' = MarkStopped(since, StopResult.ok /\ watcher # << >>)
    /\ UNCHANGED <<folder, poisoned, clock, seen, mvars, avars, notified, cvars>>

WatcherStop ==
    /\ ret' = [cmd |-> "stop", res |-> StopResult]
    /\ IF StopResult.ok
       THEN /\ watcher' = << >>
            /\ is_watching' = FALSE
       ELSE UNCHANGED <<watcher, is_watching>>
    /\ emitted' = << >>
    /\ since' = MarkStopped(since, StopResult.ok /\ watcher # << >>)
    /\ UNCHANGED <<folder, recent_events, poisoned, clock, seen, mvars, avars, notified, cvars>>

WatcherIsRunning ==
    /\ ret' = [cmd |-> "is_running",
               res |-> IF "is_watching" \in poisoned THEN Err(LockError)
                       ELSE Ok(is_watching)]
    /\ emitted' = << >>
    /\ UNCHANGED <<watcher, folder, is_watching, recent_events, poisoned, clock, seen, mvars, avars, hvars, cvars>>

(***************************************************************************)
(* The OS delivers a raw event to the callback of the registered watch.    *)
(***************************************************************************)
\* time passes between two debounce checks only when there are two
GapsFor(res) ==
    IF Cardinality({i \in DOMAIN res.paths : ShouldProcessFile(res.paths[i])}) >= 2
    THEN Gaps ELSE {0}

Callback(res, gap) ==
    /\ watcher # << >>
    /\ LET o == CallbackOutcome(res, recent_events, clock, gap,
                                "recent_events" \in poisoned)
       IN  /\ recent_events' = o.map
           /\ emitted' = o.out
           /\ clock' = o.now
    /\ ret' = [cmd |-> "callback", res |-> Ok(Unit)]
    /\ UNCHANGED <<watcher, folder, is_watching, poisoned, mvars, avars, cvars>>

\* time passes
Tick(d) ==
    /\ clock + d <= MaxClock
    /\ clock' = clock + d
    /\ ret' = [cmd |-> "tick", res |-> Ok(Unit)]
    /\ emitted' = << >>
    /\ UNCHANGED <<watcher, folder, is_watching, recent_events, poisoned, seen, mvars, avars, hvars, cvars>>

(***************************************************************************)
(* The watcher over its life: commands, raw events and time.               *)
(***************************************************************************)
\* the raw events of a watch session
SessionKinds ==
    { [tag |-> "Create", sub |-> "File"],
      [tag |-> "Modify", sub |-> "Data"],
      [tag |-> "Remove", sub |-> "File"] }

SessionPaths ==
    { [stem |-> "a", ext |-> "png"],
      [stem |-> "b", ext |-> "JPG"],
      [stem |-> "d", ext |-> "gif"] }

SessionEvent(res, gap) ==
    /\ Callback(res, gap)
    /\ seen' = << >>
    /\ UNCHANGED hvars

Next ==
    \/ \E f \in FolderInputs : WatcherSetFolder(f)
    \/ \E os \in OsOutcomes : WatcherStart(os)
    \/ WatcherStop
    \/ WatcherIsRunning
    \/ \E res \in RawResults(SessionKinds, SessionPaths) :
          \E gap \in GapsFor(res) : SessionEvent(res, gap)
    \/ \E d \in Deltas : Tick(d)

Spec == Init /\ [][Next]_vars

(***************************************************************************)
(* The watcher over its life, with the history of what the debounce filter *)
(* decided for each path.                                                  *)
(***************************************************************************)
\* nothing has come since the latest notification
NothingSince == [suppressed |-> << >>, stopped |-> FALSE]

\* history after the calls of debounce_check of one callback: an accepted
\* call adds a notification [at, skipped, restarted] to its path, telling
\* whether an event was suppressed and whether a watch was stopped since the
\* one before; a suppressed call is remembered by its instant
RECURSIVE LogChecks(_, _)
LogChecks(checks, h) ==
    IF checks = << >> THEN h
    ELSE LET c == Head(checks)
             was == IF c.path \in DOMAIN h.since THEN h.since[c.path] ELSE NothingSince
             log == IF c.path \in DOMAIN h.notified THEN h.notified[c.path] ELSE << >>
         IN  LogChecks(Tail(checks),
                 IF c.accept
                 THEN [notified |-> MapInsert(h.notified, c.path,
                                       Append(log, [at |-> c.now,
                                                    skipped |-> was.suppressed # << >>,
                                                    restarted |-> was.stopped])),
                       since |-> MapInsert(h.since, c.path, NothingSince)]
                 ELSE [notified |-> h.notified,
                       since |-> MapInsert(h.since, c.path,
                                     [was EXCEPT !.suppressed = << c.now >>])])

LoggedEvent(res, gap) ==
    /\ Callback(res, gap)
    /\ seen' = << >>
    /\ LET h == LogChecks(CallbackOutcome(res, recent_events, clock, gap,
                                          "recent_events" \in poisoned).checks,
                          [notified |-> notified, since |-> since])
       IN  /\ notified' = h.notified
           /\ since' = h.since

\* the folders, raw events and OS outcomes of the logged sessions: one path
\* that passes the extension filter and one that does not
LoggedFolders == {"/photos", "/missing"}

LoggedKinds == { [tag |-> "Create", sub |-> "File"], [tag |-> "Remove", sub |-> "File"] }

LoggedPaths == { [stem |-> "a", ext |-> "png"], [stem |-> "d", ext |-> "gif"] }

LoggedOsOutcomes == {"ok", "watch_fails"}

NextSession ==
    \/ \E f \in LoggedFolders : WatcherSetFolder(f)
    \/ \E os \in LoggedOsOutcomes : WatcherStart(os)
    \/ WatcherStop
    \/ WatcherIsRunning
    \/ \E res \in RawResults(LoggedKinds, LoggedPaths) :
          \E gap \in GapsFor(res) : LoggedEvent(res, gap)
    \/ \E d \in Deltas : Tick(d)

SpecSession == Init /\ [][NextSession]_vars

(***************************************************************************)
(* The watcher over its life when threads can panic while they hold a      *)
(* mutex of WatcherState, which poisons it: every later lock() of it fails.*)
(***************************************************************************)
Panicked(l) ==
    /\ l \notin poisoned
    /\ poisoned' = poisoned \cup {l}
    /\ ret' = [cmd |-> "panic", res |-> Ok(Unit)]
    /\ emitted' = << >>
    /\ UNCHANGED <<watcher, folder, is_watching, recent_events, clock, seen, mvars, avars,
                   hvars, cvars>>

NextPoison ==
    \/ NextSession
    \/ \E l \in Locks : Panicked(l)

SpecPoison == Init /\ [][NextPoison]_vars

(***************************************************************************)
(* The commands and the callback statement by statement, on threads that   *)
(* run side by side.  A thread waits at a lock() until the mutex is free;  *)
(* a guard is released where it goes out of scope.                         *)
(***************************************************************************)
\* what a step that returns nothing leaves in ret
Stepping == [cmd |-> "step", res |-> Ok(Unit)]

\* the variables no command and no callback writes
bystanders == <<poisoned, seen, mvars, avars, hvars>>

\* the commands a thread can be asked to run
Calls ==
    { [cmd |-> "set_folder", arg |-> f] : f \in LoggedFolders }
    \cup { [cmd |-> "start", folder |-> None, watcher |-> << >>],
           [cmd |-> "stop"],
           [cmd |-> "is_running"] }

\* the first statement of a command
CallEntry(cmd) ==
    CASE cmd = "set_folder" -> "set_folder_check"
      [] cmd = "start" -> "start_folder"
      [] cmd = "stop" -> "stop_handle"
      [] cmd = "is_running" -> "is_running_flag"

\* the mutex a thread at this statement is about to lock
LockAt(label) ==
    CASE label \in {"set_folder_store", "start_folder"} -> "folder"
      [] label \in {"start_flag", "stop_flag", "is_running_flag"} -> "is_watching"
      [] label \in {"start_handle", "stop_handle"} -> "watcher"
      [] label = "cb_lock" -> "recent_events"
      [] OTHER -> None

\* the mutexes after the guards of thread t are dropped
Release(t) == [l \in Locks |-> IF held[l] = t THEN None ELSE held[l]]

\* thread t moves on to another statement of its call
Goto(t, label) ==
    /\ pc' = [pc EXCEPT ![t] = label]
    /\ ret' = Stepping

\* the call of thread t returns res: its guards and locals are dropped
Return(t, res) ==
    /\ pc' = [pc EXCEPT ![t] = "idle"]
    /\ local' = [local EXCEPT ![t] = NoLocal]
    /\ held' = Release(t)
    /\ ret' = [cmd |-> local[t].cmd, by |-> t, res |-> res]

Invoke(t, call) ==
    /\ pc[t] = "idle"
    /\ Goto(t, CallEntry(call.cmd))
    /\ local' = [local EXCEPT ![t] = call]
    /\ emitted' = << >>
    /\ UNCHANGED <<watcher, folder, is_watching, recent_events, held, clock, bystanders>>

\* watcher_set_folder: path.exists() and path.is_dir()
SetFolderCheck(t) ==
    /\ pc[t] = "set_folder_check"
    /\ IF ~PathExists(local[t].arg) \/ ~PathIsDir(local[t].arg)
       THEN Return(t, Err(InvalidFolder))
       ELSE Goto(t, "set_folder_store") /\ UNCHANGED <<local, held>>
    /\ emitted' = << >>
    /\ UNCHANGED <<watcher, folder, is_watching, recent_events, clock, bystanders>>

\* watcher_set_folder: state.folder.lock(), the store, Ok(())
SetFolderStore(t) ==
    /\ pc[t] = "set_folder_store"
    /\ held["folder"] = None
    /\ IF "folder" \in poisoned
       THEN Return(t, Err(LockError)) /\ UNCHANGED folder
       ELSE Return(t, Ok(Unit)) /\ folder' = local[t].arg
    /\ emitted' = << >>
    /\ UNCHANGED <<watcher, is_watching, recent_events, clock, bystanders>>

\* watcher_start: the block that locks state.folder and clones the folder
StartFolder(t) ==
    /\ pc[t] = "start_folder"
    /\ held["folder"] = None
    /\ IF "folder" \in poisoned THEN Return(t, Err(LockError))
       ELSE IF folder = None THEN Return(t, Err(NotConfigured))
       ELSE /\ Goto(t, "start_flag")
            /\ local' = [local EXCEPT ![t].folder = folder]
            /\ UNCHANGED held
    /\ emitted' = << >>
    /\ UNCHANGED <<watcher, folder, is_watching, recent_events, clock, bystanders>>

\* watcher_start: state.is_watching.lock() and the test of the flag; the
\* guard lives to the end of the function
StartFlag(t) ==
    /\ pc[t] = "start_flag"
    /\ held["is_watching"] = None
    /\ IF "is_watching" \in poisoned THEN Return(t, Err(LockError))
       ELSE IF is_watching THEN Return(t, Err(AlreadyWatching))
       ELSE /\ Goto(t, "start_setup")
            /\ held' = [held EXCEPT !["is_watching"] = t]
            /\ UNCHANGED local
    /\ emitted' = << >>
    /\ UNCHANGED <<watcher, folder, is_watching, recent_events, clock, bystanders>>

\* watcher_start: RecommendedWatcher::new and watcher.watch
StartSetup(t, os) ==
    /\ pc[t] = "start_setup"
    /\ IF os # "ok" THEN Return(t, Err(WatchSetupError))
       ELSE /\ Goto(t, "start_handle")
            /\ local' = [local EXCEPT ![t].watcher =
                            << [folder |-> local[t].folder, mode |-> "Recursive"] >>]
            /\ UNCHANGED held
    /\ emitted' = << >>
    /\ UNCHANGED <<watcher, folder, is_watching, recent_events, clock, bystanders>>

\* watcher_start: state.watcher.lock()
StartHandle(t) ==
    /\ pc[t] = "start_handle"
    /\ held["watcher"] = None
    /\ IF "watcher" \in poisoned THEN Return(t, Err(LockError))
       ELSE /\ Goto(t, "start_store")
            /\ held' = [held EXCEPT !["watcher"] = t]
            /\ UNCHANGED local
    /\ emitted' = << >>
    /\ UNCHANGED <<watcher, folder, is_watching, recent_events, clock, bystanders>>

\* watcher_start: *watcher_state = Some(watcher)
StartStore(t) ==
    /\ pc[t] = "start_store"
    /\ watcher' = local[t].watcher
    /\ local' = [local EXCEPT ![t].watcher = << >>]
    /\ Goto(t, "start_set")
    /\ emitted' = << >>
    /\ UNCHANGED <<folder, is_watching, recent_events, held, clock, bystanders>>

\* watcher_start: *is_watching = true
StartSet(t) ==
    /\ pc[t] = "start_set"
    /\ is_watching' = TRUE
    /\ Goto(t, "start_return")
    /\ emitted' = << >>
    /\ UNCHANGED <<watcher, folder, recent_events, local, held, clock, bystanders>>

\* watcher_start: Ok(())
StartReturn(t) ==
    /\ pc[t] = "start_return"
    /\ Return(t, Ok(Unit))
    /\ emitted' = << >>
    /\ UNCHANGED <<watcher, folder, is_watching, recent_events, clock, bystanders>>

\* watcher_stop: state.watcher.lock()
StopHandle(t) ==
    /\ pc[t] = "stop_handle"
    /\ held["watcher"] = None
    /\ IF "watcher" \in poisoned THEN Return(t, Err(LockError))
       ELSE /\ Goto(t, "stop_flag")
            /\ held' = [held EXCEPT !["watcher"] = t]
            /\ UNCHANGED local
    /\ emitted' = << >>
    /\ UNCHANGED <<watcher, folder, is_watching, recent_events, clock, bystanders>>

\* watcher_stop: state.is_watching.lock()
StopFlag(t) ==
    /\ pc[t] = "stop_flag"
    /\ held["is_watching"] = None
    /\ IF "is_watching" \in poisoned THEN Return(t, Err(LockError))
       ELSE /\ Goto(t, "stop_clear")
            /\ held' = [held EXCEPT !["is_watching"] = t]
            /\ UNCHANGED local
    /\ emitted' = << >>
    /\ UNCHANGED <<watcher, folder, is_watching, recent_events, clock, bystanders>>

\* watcher_stop: *watcher_state = None
StopClear(t) ==
    /\ pc[t] = "stop_clear"
    /\ watcher' = << >>
    /\ Goto(t, "stop_reset")
    /\ emitted' = << >>
    /\ UNCHANGED <<folder, is_watching, recent_events, local, held, clock, bystanders>>

\* a faulty variant: the flag is left as it is
StopReset_Skipped(t) ==
    /\ pc[t] = "stop_reset"
    /\ Return(t, Ok(Unit))
    /\ emitted' = << >>
    /\ UNCHANGED <<watcher, folder, is_watching, recent_events, clock, bystanders>>

\* watcher_stop: *is_watching = false, Ok(())
StopReset(t) ==
    /\ pc[t] = "stop_reset"
    /\ is_watching' = FALSE
    /\ Return(t, Ok(Unit))
    /\ emitted' = << >>
    /\ UNCHANGED <<watcher, folder, recent_events, clock, bystanders>>

\* watcher_is_running: state.is_watching.lock(), Ok(*is_watching)
IsRunningFlag(t) ==
    /\ pc[t] = "is_running_flag"
    /\ held["is_watching"] = None
    /\ IF "is_watching" \in poisoned THEN Return(t, Err(LockError))
       ELSE Return(t, Ok(is_watching))
    /\ emitted' = << >>
    /\ UNCHANGED <<watcher, folder, is_watching, recent_events, clock, bystanders>>

\* a watch is registered with the OS: the stored one, or the one a
\* watcher_start has set up and not stored yet
Registered ==
    \/ watcher # << >>
    \/ \E t \in CommandThreads : local[t].cmd = "start" /\ local[t].watcher # << >>

\* the callback closure is called with a raw event
CbReceive(res) ==
    /\ pc[CallbackThread] = "idle"
    /\ Registered
    /\ IF ~res.ok \/ ~ShouldEmit(res.kind)
       THEN /\ ret' = [cmd |-> "callback", by |-> CallbackThread, res |-> Ok(Unit)]
            /\ UNCHANGED <<pc, local>>
       ELSE /\ Goto(CallbackThread, "cb_next")
            /\ local' = [local EXCEPT ![CallbackThread] =
                            [cmd |-> "callback", paths |-> res.paths]]
    /\ emitted' = << >>
    /\ UNCHANGED <<watcher, folder, is_watching, recent_events, held, clock, bystanders>>

\* the thread goes on with the paths after the one it has dealt with
NextPath(t) == local' = [local EXCEPT ![t].paths = Tail(@)]

\* for path in event.paths, and should_process_file
CbNext ==
    LET t == CallbackThread
    IN  /\ pc[t] = "cb_next"
        /\ IF local[t].paths = << >> THEN Return(t, Ok(Unit))
           ELSE IF ~ShouldProcessFile(Head(local[t].paths))
           THEN /\ NextPath(t)
                /\ ret' = Stepping
                /\ UNCHANGED <<pc, held>>
           ELSE Goto(t, "cb_lock") /\ UNCHANGED <<local, held>>
        /\ emitted' = << >>
        /\ UNCHANGED <<watcher, folder, is_watching, recent_events, clock, bystanders>>

\* debounce_check: recent_events.lock(); a poisoned mutex makes it return false
CbLock ==
    LET t == CallbackThread
    IN  /\ pc[t] = "cb_lock"
        /\ held["recent_events"] = None
        /\ IF "recent_events" \in poisoned
           THEN Goto(t, "cb_next") /\ NextPath(t) /\ UNCHANGED held
           ELSE /\ Goto(t, "cb_check")
                /\ held' = [held EXCEPT !["recent_events"] = t]
                /\ UNCHANGED local
        /\ emitted' = << >>
        /\ UNCHANGED <<watcher, folder, is_watching, recent_events, clock, bystanders>>

\* a faulty variant: the guard of the table is kept while the notification is emitted
CbCheck_KeepsGuard ==
    LET t == CallbackThread
        d == DebounceCheck(Head(local[t].paths), recent_events, clock, FALSE)
    IN  /\ pc[t] = "cb_check"
        /\ recent_events' = d.map
        /\ IF d.accept
           THEN Goto(t, "cb_emit") /\ UNCHANGED <<local, held>>
           ELSE Goto(t, "cb_next") /\ NextPath(t) /\ held' = Release(t)
        /\ emitted' = << >>
        /\ UNCHANGED <<watcher, folder, is_watching, clock, bystanders>>

\* debounce_check under the guard: the test, the insert, and the return that
\* drops the guard
CbCheck ==
    LET t == CallbackThread
        d == DebounceCheck(Head(local[t].paths), recent_events, clock, FALSE)
    IN  /\ pc[t] = "cb_check"
        /\ recent_events' = d.map
        /\ held' = Release(t)
        /\ IF d.accept
           THEN Goto(t, "cb_emit") /\ UNCHANGED local
           ELSE Goto(t, "cb_next") /\ NextPath(t)
        /\ emitted' = << >>
        /\ UNCHANGED <<watcher, folder, is_watching, clock, bystanders>>

\* app_handle_clone.emit("hdr://file-detected", ..)
CbEmit ==
    LET t == CallbackThread
    IN  /\ pc[t] = "cb_emit"
        /\ emitted' = << ToStringLossy(Head(local[t].paths)) >>
        /\ Goto(t, "cb_next")
        /\ NextPath(t)
        /\ held' = Release(t)
        /\ UNCHANGED <<watcher, folder, is_watching, recent_events, clock, bystanders>>

NextThreads ==
    \/ \E t \in CommandThreads : \E call \in Calls : Invoke(t, call)
    \/ \E t \in CommandThreads : SetFolderCheck(t)
    \/ \E t \in CommandThreads : SetFolderStore(t)
    \/ \E t \in CommandThreads : StartFolder(t)
    \/ \E t \in CommandThreads : StartFlag(t)
    \/ \E t \in CommandThreads : \E os \in LoggedOsOutcomes : StartSetup(t, os)
    \/ \E t \in CommandThreads : StartHandle(t)
    \/ \E t \in CommandThreads : StartStore(t)
    \/ \E t \in CommandThreads : StartSet(t)
    \/ \E t \in CommandThreads : StartReturn(t)
    \/ \E t \in CommandThreads : StopHandle(t)
    \/ \E t \in CommandThreads : StopFlag(t)
    \/ \E t \in CommandThreads : StopClear(t)
    \/ \E t \in CommandThreads : StopReset(t)
    \/ \E t \in CommandThreads : IsRunningFlag(t)
    \/ \E res \in RawResults(LoggedKinds, LoggedPaths) : CbReceive(res)
    \/ CbNext
    \/ CbLock
    \/ CbCheck
    \/ CbEmit
    \/ \E d \in Deltas : Tick(d)

SpecThreads == Init /\ [][NextThreads]_vars

(***************************************************************************)
(* One raw event handed to the callback of a running watch, from any table *)
(* the watch can have built up.                                            *)
(***************************************************************************)
\* the instants the table and the clock are drawn from
Instants == {1, 500, 501}

AllowedEventPaths == {p \in EventPaths : ShouldProcessFile(p)}

Tables(now) ==
    UNION { [S -> {t \in Instants : t <= now}] : S \in SUBSET AllowedEventPaths }

InitCallback ==
    /\ folder = "/photos"
    /\ watcher = << [folder |-> "/photos", mode |-> "Recursive"] >>
    /\ is_watching = TRUE
    /\ poisoned = {}
    /\ clock \in Instants
    /\ recent_events \in Tables(clock)
    /\ ret = [cmd |-> "start", os |-> "ok", res |-> Ok(Unit)]
    /\ emitted = << >>
    /\ seen = << >>
    /\ NoMerge
    /\ NoAnalysis
    /\ NoHistory
    /\ Quiet

ObservedEvent(res, gap) ==
    /\ seen = << >>
    /\ Callback(res, gap)
    /\ seen' = << [res |-> res, gap |-> gap, at |-> clock, before |-> recent_events,
                   checks |-> CallbackOutcome(res, recent_events, clock, gap,
                                  "recent_events" \in poisoned).checks] >>
    /\ UNCHANGED hvars

NextCallback ==
    \E res \in RawResults(EventKinds, EventPaths) :
       \E gap \in GapsFor(res) : ObservedEvent(res, gap)

SpecCallback == InitCallback /\ [][NextCallback]_vars

(***************************************************************************)
(* merge_hdr: the files it reads.                                          *)
(***************************************************************************)
\* request.paths.len() < 2
MinMergeInputs == 2
\* request.paths.len() > 5
MaxMergeInputs == 5
\* Rgb<u16>
ChannelBits == 16
\* sum_r, sum_g, sum_b: u64
AccumulatorBits == 64

InputFiles == {"/in/a.png", "/in/b.jpg", "/in/wide.png", "/in/short.png", "/in/bad.png", "/"}

\* image::open(path) followed by to_rgb16(): the raster, row by row, or the error
LoadRgb16(path) ==
    CASE path = "/in/a.png" ->
            Ok([width |-> 1, height |-> 2,
                pixels |-> << <<0, 65535, 1>>, <<100, 65534, 7>> >>])
      [] path = "/in/b.jpg" ->
            Ok([width |-> 1, height |-> 2,
                pixels |-> << <<65535, 65535, 2>>, <<301, 65535, 8>> >>])
      [] path = "/in/wide.png" ->
            Ok([width |-> 2, height |-> 2,
                pixels |-> << <<1, 2, 3>>, <<4, 5, 6>>, <<7, 8, 9>>, <<10, 11, 12>> >>])
      [] path = "/in/short.png" ->
            Ok([width |-> 1, height |-> 1, pixels |-> << <<9, 9, 9>> >>])
      [] path = "/in/bad.png" ->
            Err([kind |-> "DecodeError", cause |-> "Format error decoding Png"])
      [] OTHER ->
            Err([kind |-> "DecodeError", cause |-> "Is a directory (os error 21)"])

\* Path::parent
Parent(path) ==
    CASE path = "/" -> None
      [] path \in {"/in", "/out", "/new"} -> "/"
      [] path = "/new/deep" -> "/new"
      [] OTHER -> "/in"

\* the directories std::fs::create_dir_all(dir) makes sure of
RECURSIVE Ancestors(_)
Ancestors(dir) == IF Parent(dir) = None THEN {dir} ELSE {dir} \cup Ancestors(Parent(dir))

(***************************************************************************)
(* merge_hdr: the per-pixel mean.                                          *)
(***************************************************************************)
\* the number of bits of a natural number
RECURSIVE BitLen(_)
BitLen(n) == IF n = 0 THEN 0 ELSE 1 + BitLen(n \div 2)

\* an unsigned integer of the given width holding n
Wrap(n, bits) == IF BitLen(n) <= bits THEN n ELSE n % (2 ^ bits)

\* image.get_pixel(x, y) panics unless x < width and y < height
InBounds(images, width, height) ==
    \A i \in DOMAIN images : images[i].width >= width /\ images[i].height >= height

\* image.get_pixel(x, y)
GetPixel(image, x, y) == image.pixels[y * image.width + x + 1]

\* sum += p[c] as u64, over the images
RECURSIVE SumChannel(_, _, _, _, _)
SumChannel(images, x, y, c, sum) ==
    IF images = << >> THEN sum
    ELSE SumChannel(Tail(images), x, y, c,
                    Wrap(sum + GetPixel(Head(images), x, y)[c], AccumulatorBits))

\* a faulty variant: the mean is rounded to the nearest integer
MeanChannel_Rounded(images, x, y, c) ==
    LET count == Len(images)
    IN  Wrap((SumChannel(images, x, y, c, 0) + count \div 2) \div count, ChannelBits)

\* (sum / count) as u16
MeanChannel(images, x, y, c) ==
    LET count == Len(images)
    IN  Wrap(SumChannel(images, x, y, c, 0) \div count, ChannelBits)

\* the loop over merged.enumerate_pixels_mut()
MergePixels(images, width, height) ==
    [width |-> width, height |-> height,
     pixels |-> [i \in 1..(width * height) |->
                    LET x == (i - 1) % width
                        y == (i - 1) \div width
                    IN  << MeanChannel(images, x, y, 1),
                           MeanChannel(images, x, y, 2),
                           MeanChannel(images, x, y, 3) >>]]

(***************************************************************************)
(* merge_hdr: the stages.  Each takes and returns the record               *)
(* [res, ops, dirs, files]: the result so far (<< >> while running), what  *)
(* has been done, and the file system.                                     *)
(***************************************************************************)
MergeErr(kind, cause) == Err([kind |-> kind, cause |-> cause])

\* a faulty variant: every path is decoded, and the first error is reported at the end
RECURSIVE DecodeAll_NoShortCircuit(_, _)
DecodeAll_NoShortCircuit(paths, acc) ==
    IF paths = << >> THEN acc
    ELSE LET r == LoadRgb16(Head(paths))
             did == Append(acc.ops, [op |-> "decode", path |-> Head(paths)])
         IN  IF r.ok
             THEN DecodeAll_NoShortCircuit(Tail(paths),
                      [images |-> Append(acc.images, r.val), err |-> acc.err, ops |-> did])
             ELSE DecodeAll_NoShortCircuit(Tail(paths),
                      [images |-> acc.images,
                       err |-> IF acc.err = << >> THEN << r >> ELSE acc.err,
                       ops |-> did])

\* request.paths.iter().map(load_rgb16).collect::<Result<_, _>>()
\* [images, err, ops]: collect stops at the first Err
RECURSIVE DecodeAll(_, _)
DecodeAll(paths, acc) ==
    IF paths = << >> THEN acc
    ELSE LET r == LoadRgb16(Head(paths))
             did == Append(acc.ops, [op |-> "decode", path |-> Head(paths)])
         IN  IF r.ok
             THEN DecodeAll(Tail(paths),
                            [images |-> Append(acc.images, r.val), err |-> << >>, ops |-> did])
             ELSE [images |-> acc.images, err |-> << r >>, ops |-> did]

\* a faulty variant: only the width of each image is compared with the first
SameDimensions_WidthOnly(images) ==
    \A i \in DOMAIN images : images[i].width = images[1].width

\* the loop that compares every image with images[0]
SameDimensions(images) ==
    \A i \in DOMAIN images :
       ~(images[i].width # images[1].width \/ images[i].height # images[1].height)

\* Local::now().format("%Y%m%d_%H%M%S")
FormatTimestamp(t) == IF t = 0 THEN "20261104_235959" ELSE "20261105_000000"

\* Local::now().to_rfc3339()
ToRfc3339(t) == IF t = 0 THEN "2026-11-04T23:59:59+09:00" ELSE "2026-11-05T00:00:00+09:00"

\* output_dir.join(format!("{}.<ext>", base_name)).to_string_lossy()
OutputPath(dir, t, ext) ==
    (IF dir = "/" THEN "" ELSE dir) \o "/hdr_merge_" \o FormatTimestamp(t) \o "." \o ext

\* what the environment does to one merge: the directory creation, the two
\* writes, and the wall clock (seconds) at the file name and at the end
MergeEnvs ==
    { e \in [mkdir : BOOLEAN, png : BOOLEAN, exr : BOOLEAN, t1 : {0, 1}, t2 : {0, 1}] :
         e.t1 <= e.t2 }

\* a faulty variant: the EXR is written first, the PNG after it
WriteOutputs_ExrFirst(req, env, image, dir, st) ==
    LET png_path == OutputPath(dir, env.t1, "png")
        exr_path == OutputPath(dir, env.t1, "exr")
        png_op == [op |-> "write_png", path |-> png_path, ok |-> env.png]
        exr_op == [op |-> "write_exr", path |-> exr_path, ok |-> env.exr]
    IN  IF req.output_exr /\ ~env.exr
        THEN [st EXCEPT !.res = << MergeErr("EncodeError", "exr") >>,
                        !.ops = Append(st.ops, exr_op)]
        ELSE IF ~env.png
        THEN [st EXCEPT !.res = << MergeErr("EncodeError", "png") >>,
                        !.ops = IF req.output_exr THEN st.ops \o << exr_op, png_op >>
                                ELSE Append(st.ops, png_op),
                        !.files = IF req.output_exr THEN st.files \cup {exr_path}
                                  ELSE st.files]
        ELSE [st EXCEPT
                !.res = << Ok([output_png_path |-> png_path,
                               output_exr_path |-> IF req.output_exr THEN exr_path ELSE None,
                               width |-> image.width,
                               height |-> image.height,
                               merged_at |-> ToRfc3339(env.t2)]) >>,
                !.ops = IF req.output_exr THEN st.ops \o << exr_op, png_op >>
                        ELSE Append(st.ops, png_op),
                !.files = IF req.output_exr THEN st.files \cup {png_path, exr_path}
                          ELSE st.files \cup {png_path}]

\* the output stage: the PNG, then the EXR when asked for, then the result
WriteOutputs(req, env, image, dir, st) ==
    LET png_path == OutputPath(dir, env.t1, "png")
        exr_path == OutputPath(dir, env.t1, "exr")
        png_op == [op |-> "write_png", path |-> png_path, ok |-> env.png]
        exr_op == [op |-> "write_exr", path |-> exr_path, ok |-> env.exr]
    IN  IF ~env.png
        THEN [st EXCEPT !.res = << MergeErr("EncodeError", "png") >>,
                        !.ops = Append(st.ops, png_op)]
        ELSE IF req.output_exr /\ ~env.exr
        THEN [st EXCEPT !.res = << MergeErr("EncodeError", "exr") >>,
                        !.ops = st.ops \o << png_op, exr_op >>,
                        !.files = st.files \cup {png_path}]
        ELSE [st EXCEPT
                !.res = << Ok([output_png_path |-> png_path,
                               output_exr_path |-> IF req.output_exr THEN exr_path ELSE None,
                               width |-> image.width,
                               height |-> image.height,
                               merged_at |-> ToRfc3339(env.t2)]) >>,
                !.ops = IF req.output_exr THEN st.ops \o << png_op, exr_op >>
                        ELSE Append(st.ops, png_op),
                !.files = IF req.output_exr THEN st.files \cup {png_path, exr_path}
                          ELSE st.files \cup {png_path}]

\* a faulty variant: the directory asked for is not looked at
OutputStage_ParentOnly(req, env, image, st) ==
    LET dir == Parent(req.paths[1])
    IN  IF dir = None
        THEN [st EXCEPT !.res = << MergeErr("PathError", "no parent") >>]
        ELSE IF dir \in st.dirs
        THEN WriteOutputs(req, env, image, dir, st)
        ELSE IF ~env.mkdir
        THEN [st EXCEPT !.res = << MergeErr("CreateDirError", dir) >>,
                        !.ops = Append(st.ops, [op |-> "create_dir_all", path |-> dir,
                                                ok |-> FALSE])]
        ELSE WriteOutputs(req, env, image, dir,
                 [st EXCEPT !.ops = Append(st.ops, [op |-> "create_dir_all", path |-> dir,
                                                    ok |-> TRUE]),
                            !.dirs = st.dirs \cup Ancestors(dir)])

\* the output directory: chosen, then created when it does not exist
OutputStage(req, env, image, st) ==
    LET dir == IF req.output_dir # None THEN req.output_dir ELSE Parent(req.paths[1])
    IN  IF dir = None
        THEN [st EXCEPT !.res = << MergeErr("PathError", "no parent") >>]
        ELSE IF dir \in st.dirs
        THEN WriteOutputs(req, env, image, dir, st)
        ELSE IF ~env.mkdir
        THEN [st EXCEPT !.res = << MergeErr("CreateDirError", dir) >>,
                        !.ops = Append(st.ops, [op |-> "create_dir_all", path |-> dir,
                                                ok |-> FALSE])]
        ELSE WriteOutputs(req, env, image, dir,
                 [st EXCEPT !.ops = Append(st.ops, [op |-> "create_dir_all", path |-> dir,
                                                    ok |-> TRUE]),
                            !.dirs = st.dirs \cup Ancestors(dir)])

\* a faulty variant: the number of paths is looked at after they have been decoded
MergeOutcome_LateCountCheck(req, env, st) ==
    LET d == DecodeAll(req.paths, [images |-> << >>, err |-> << >>, ops |-> st.ops])
    IN  IF d.err # << >>
        THEN [st EXCEPT !.res = d.err, !.ops = d.ops]
        ELSE IF Len(req.paths) < MinMergeInputs
        THEN [st EXCEPT !.res = << MergeErr("InvalidArgument", "fewer than 2") >>,
                        !.ops = d.ops]
        ELSE IF Len(req.paths) > MaxMergeInputs
        THEN [st EXCEPT !.res = << MergeErr("InvalidArgument", "more than 5") >>,
                        !.ops = d.ops]
        ELSE IF ~SameDimensions(d.images)
        THEN [st EXCEPT !.res = << MergeErr("DimensionMismatch", "size") >>,
                        !.ops = d.ops]
        ELSE LET image == MergePixels(d.images, d.images[1].width, d.images[1].height)
             IN  OutputStage(req, env, image,
                     [st EXCEPT !.ops = Append(d.ops, [op |-> "average",
                                                       image |-> image])])

\* merge_hdr(request)
MergeOutcome(req, env, st) ==
    IF Len(req.paths) < MinMergeInputs
    THEN [st EXCEPT !.res = << MergeErr("InvalidArgument", "fewer than 2") >>]
    ELSE IF Len(req.paths) > MaxMergeInputs
    THEN [st EXCEPT !.res = << MergeErr("InvalidArgument", "more than 5") >>]
    ELSE LET d == DecodeAll(req.paths, [images |-> << >>, err |-> << >>, ops |-> st.ops])
         IN  IF d.err # << >>
             THEN [st EXCEPT !.res = d.err, !.ops = d.ops]
             ELSE IF ~SameDimensions(d.images)
             THEN [st EXCEPT !.res = << MergeErr("DimensionMismatch", "size") >>,
                             !.ops = d.ops]
             ELSE IF ~InBounds(d.images, d.images[1].width, d.images[1].height)
             THEN [st EXCEPT !.res = << MergeErr("Panic", "get_pixel out of bounds") >>,
                             !.ops = d.ops]
             ELSE LET image == MergePixels(d.images, d.images[1].width, d.images[1].height)
                  IN  OutputStage(req, env, image,
                          [st EXCEPT !.ops = Append(d.ops, [op |-> "average",
                                                            image |-> image])])

\* the environment matters only to a merge that gets to its output stage
MergeEnvsFor(req) ==
    LET quiet == [mkdir |-> TRUE, png |-> TRUE, exr |-> TRUE, t1 |-> 0, t2 |-> 0]
    IN  IF Len(req.paths) < MinMergeInputs \/ Len(req.paths) > MaxMergeInputs
        THEN {quiet}
        ELSE LET d == DecodeAll(req.paths, [images |-> << >>, err |-> << >>, ops |-> << >>])
             IN  IF d.err # << >> \/ ~SameDimensions(d.images) THEN {quiet} ELSE MergeEnvs

MergeHdr(env) ==
    /\ merged = << >>
    /\ LET o == MergeOutcome(request, env,
                             [res |-> << >>, ops |-> ops, dirs |-> dirs, files |-> files])
       IN  /\ merged' = o.res
           /\ ops' = o.ops
           /\ dirs' = o.dirs
           /\ files' = o.files
    /\ UNCHANGED <<request, wvars, seen, avars, hvars, cvars>>

(***************************************************************************)
(* One merge_hdr call, for every request over the input files.             *)
(***************************************************************************)
OutputDirs == {None, "/out", "/new/deep"}

\* the path lists: every one of at most MaxMergeInputs files, and longer
\* ones of files that decode and of files that do not
PathLists ==
    UNION { [1..n -> InputFiles] : n \in 0..MaxMergeInputs }
    \cup { s \o << f >> : s \in [1..MaxMergeInputs -> {"/in/a.png", "/in/bad.png"}],
                          f \in InputFiles }

MergeRequests == [paths : PathLists, output_dir : OutputDirs, output_exr : BOOLEAN]

InitMerge ==
    /\ WatcherDefault
    /\ clock = 0
    /\ ret = [cmd |-> "init", res |-> Ok(Unit)]
    /\ emitted = << >>
    /\ seen = << >>
    /\ request \in MergeRequests
    /\ merged = << >>
    /\ ops = << >>
    /\ dirs = InitialDirs
    /\ files = {}
    /\ NoAnalysis
    /\ NoHistory
    /\ Quiet

NextMerge == \E env \in MergeEnvsFor(request) : MergeHdr(env)

SpecMerge == InitMerge /\ [][NextMerge]_vars

(***************************************************************************)
(* analyze_images                                                          *)
(***************************************************************************)
MaxAnalyzeInputs == 3

\* the weights of calculate_average_luma, in ten-thousandths
LumaRed == 2126
LumaGreen == 7152
LumaBlue == 722
LumaScale == 10000

\* u16::MAX
U16Max == 2 ^ ChannelBits - 1

\* total, as the exact multiple of 1 / (LumaScale * U16Max) the loop adds up
\* (the rounding of the f64 additions is left out)
RECURSIVE LumaTotal(_)
LumaTotal(pixels) ==
    IF pixels = << >> THEN 0
    ELSE LumaRed * Head(pixels)[1] + LumaGreen * Head(pixels)[2]
            + LumaBlue * Head(pixels)[3] + LumaTotal(Tail(pixels))

\* calculate_average_luma: [total, pixels] stands for the value
\* total / (LumaScale * U16Max * pixels), and [0, 1] for 0.0
CalculateAverageLuma(image) ==
    LET pixel_count == image.width * image.height
    IN  IF pixel_count = 0 THEN [total |-> 0, pixels |-> 1]
        ELSE [total |-> LumaTotal(image.pixels), pixels |-> pixel_count]

\* a faulty variant: a file that does not decode is skipped
RECURSIVE AnalyzeLoop_SkipsFailures(_, _)
AnalyzeLoop_SkipsFailures(paths, acc) ==
    IF paths = << >> THEN [acc EXCEPT !.res = << Ok(acc.stats) >>]
    ELSE LET r == LoadRgb16(Head(paths))
             did == Append(acc.ops, [op |-> "decode", path |-> Head(paths)])
         IN  IF ~r.ok
             THEN AnalyzeLoop_SkipsFailures(Tail(paths), [acc EXCEPT !.ops = did])
             ELSE AnalyzeLoop_SkipsFailures(Tail(paths),
                      [acc EXCEPT !.ops = did,
                                  !.stats = Append(acc.stats,
                                      [path |-> Head(paths),
                                       average_luma |-> CalculateAverageLuma(r.val)])])

\* for path in paths { load_rgb16(&path)?; ...; stats.push(..) }  Ok(stats)
\* acc is [stats, res, ops]
RECURSIVE AnalyzeLoop(_, _)
AnalyzeLoop(paths, acc) ==
    IF paths = << >> THEN [acc EXCEPT !.res = << Ok(acc.stats) >>]
    ELSE LET r == LoadRgb16(Head(paths))
             did == Append(acc.ops, [op |-> "decode", path |-> Head(paths)])
         IN  IF ~r.ok
             THEN [acc EXCEPT !.ops = did, !.res = << r >>]
             ELSE AnalyzeLoop(Tail(paths),
                      [acc EXCEPT !.ops = did,
                                  !.stats = Append(acc.stats,
                                      [path |-> Head(paths),
                                       average_luma |-> CalculateAverageLuma(r.val)])])

AnalyzeOutcome(paths, did) ==
    IF paths = << >>
    THEN [stats |-> << >>, res |-> << MergeErr("NoInput", "no paths") >>, ops |-> did]
    ELSE AnalyzeLoop(paths, [stats |-> << >>, res |-> << >>, ops |-> did])

AnalyzeImages ==
    /\ stats = << >>
    /\ LET o == AnalyzeOutcome(analyze_paths, ops)
       IN  /\ stats' = o.res
           /\ ops' = o.ops
    /\ UNCHANGED <<analyze_paths, request, merged, dirs, files, wvars, seen, hvars, cvars>>

(***************************************************************************)
(* One analyze_images call, for every list of at most MaxAnalyzeInputs     *)
(* input files.                                                            *)
(***************************************************************************)
AnalyzeLists == UNION { [1..n -> InputFiles] : n \in 0..MaxAnalyzeInputs }

InitAnalyze ==
    /\ WatcherDefault
    /\ clock = 0
    /\ ret = [cmd |-> "init", res |-> Ok(Unit)]
    /\ emitted = << >>
    /\ seen = << >>
    /\ NoMerge
    /\ analyze_paths \in AnalyzeLists
    /\ stats = << >>
    /\ NoHistory
    /\ Quiet

NextAnalyze == AnalyzeImages

SpecAnalyze == InitAnalyze /\ [][NextAnalyze]_vars

(***************************************************************************)
(* The watch lifecycle (checked under Spec).                               *)
(***************************************************************************)
\* the controller's two states
Active == is_watching /\ watcher # << >>

Idle == ~is_watching /\ watcher = << >>

\* C1: watcher_start fails with NotConfigured whenever no folder is
\* configured and with AlreadyWatching whenever the controller is Active; it
\* succeeds, moving Idle -> Active, only when a folder is configured and the
\* controller is Idle.
C1_StartContract ==
    [][ret'.cmd = "start" =>
          /\ folder = None => ret'.res = Err(NotConfigured)
          /\ Active => ret'.res = Err(AlreadyWatching)
          /\ ret'.res.ok =>
                /\ folder # None /\ Idle
                /\ is_watching' /\ watcher' = << [folder |-> folder, mode |-> "Recursive"] >>
          /\ folder # None /\ Idle /\ ret'.os = "ok" => ret'.res = Ok(Unit)]_vars

\* a second start, with no stop in between, was refused
C1_Witness ==
    /\ ret.cmd = "start"
    /\ ret.res = Err(AlreadyWatching)
    /\ Active

\* C2: watcher_stop succeeds from Idle and from Active and leaves the
\* controller Idle with no watch handle; it changes nothing else (so a second
\* stop changes nothing at all), in particular not the configured folder, and
\* the start that follows a stop is refused neither as NotConfigured nor as
\* AlreadyWatching.
C2_StopIdempotent ==
    [][/\ ret'.cmd = "stop" =>
             /\ ret'.res = Ok(Unit)
             /\ is_watching' = FALSE /\ watcher' = << >>
             /\ folder' = folder /\ recent_events' = recent_events
             /\ poisoned' = poisoned /\ clock' = clock
       /\ ret.cmd = "stop" /\ ret'.cmd = "start" /\ folder # None =>
             /\ ret'.res \in {Ok(Unit), Err(WatchSetupError)}
             /\ ret'.os = "ok" => ret'.res = Ok(Unit) /\ is_watching']_vars

\* an active watch on a configured folder was stopped
C2_Witness ==
    /\ ret.cmd = "stop"
    /\ folder # None
    /\ Idle
    /\ recent_events # << >>

\* C12: watcher_set_folder is accepted in Idle and in Active; with a path
\* that is an existing directory it replaces the configured folder and
\* nothing else: the running flag, the watch handle (an active watch keeps
\* the folder it was started on) and the debounce table stay as they were;
\* with a path that is missing or no directory it fails with InvalidFolder
\* and changes nothing.
C12_SetFolderFrame ==
    [][ret'.cmd = "set_folder" =>
          /\ PathExists(ret'.arg) /\ PathIsDir(ret'.arg) =>
                ret'.res = Ok(Unit) /\ folder' = ret'.arg
          /\ ~(PathExists(ret'.arg) /\ PathIsDir(ret'.arg)) =>
                ret'.res = Err(InvalidFolder) /\ folder' = folder
          /\ is_watching' = is_watching
          /\ watcher' = watcher
          /\ recent_events' = recent_events
          /\ poisoned' = poisoned /\ clock' = clock]_vars

\* the folder was replaced while a watch was active on another one, which
\* the watch keeps
C12_Witness ==
    /\ ret.cmd = "set_folder"
    /\ ret.res = Ok(Unit)
    /\ Active
    /\ watcher[1].folder # folder
    /\ recent_events # << >>

\* C13: a watcher_start that fails changes no state: not the running flag,
\* not the watch handle, not the folder, not the debounce table.  After
\* WatchSetupError the controller is Idle, with no handle and the flag false,
\* and the start that follows succeeds when the OS lets it.
C13_FailedStartFrame ==
    [][/\ ret'.cmd = "start" /\ ~ret'.res.ok =>
             /\ ret'.res \in {Err(NotConfigured), Err(AlreadyWatching), Err(WatchSetupError)}
             /\ is_watching' = is_watching
             /\ watcher' = watcher
             /\ folder' = folder
             /\ recent_events' = recent_events
             /\ ret'.res = Err(WatchSetupError) =>
                   ~is_watching' /\ watcher' = << >> /\ folder' # None
       /\ ret.cmd = "start" /\ ret.res = Err(WatchSetupError)
             /\ ret'.cmd = "start" /\ ret'.os = "ok" =>
                ret'.res = Ok(Unit) /\ is_watching' /\ watcher' # << >>]_vars

\* the OS refused a watch after an earlier session had filled the table
C13_Witness ==
    /\ ret.cmd = "start"
    /\ ret.res = Err(WatchSetupError)
    /\ ret.os = "watch_fails"
    /\ Idle
    /\ recent_events # << >>

\* C16: no step removes an entry of the debounce table: the set of its paths
\* only grows and the instant of a path never decreases; the commands, stop
\* among them, leave the table as it is.
C16_TableOnlyGrows ==
    [][/\ DOMAIN recent_events \subseteq DOMAIN recent_events'
       /\ \A p \in DOMAIN recent_events : recent_events'[p] >= recent_events[p]
       /\ ret'.cmd \in {"set_folder", "start", "stop", "is_running"} =>
             recent_events' = recent_events]_vars

\* a watch was stopped with two paths in the table, one of them accepted
\* more than once
C16_Witness ==
    /\ ret.cmd = "stop"
    /\ Idle
    /\ Cardinality(DOMAIN recent_events) = 2
    /\ \E p \in DOMAIN recent_events : recent_events[p] >= DebounceMs

(***************************************************************************)
(* The notifications of a path (checked under SpecSession).                *)
(***************************************************************************)
\* C15: over any sequence of raw events and any stop/start cycles, two
\* notifications for the same path are at least DebounceMs apart, and an
\* event for a path is suppressed only within DebounceMs of the latest
\* notification for that path: a suppressed event does not extend the window.
C15_NotificationsApart ==
    \A p \in DOMAIN notified :
       LET log == notified[p]
       IN  /\ \A i \in 2..Len(log) : log[i].at - log[i - 1].at >= DebounceMs
           /\ p \in DOMAIN recent_events /\ recent_events[p] = log[Len(log)].at
           /\ \A i \in DOMAIN since[p].suppressed :
                 /\ since[p].suppressed[i] >= log[Len(log)].at
                 /\ since[p].suppressed[i] - log[Len(log)].at < DebounceMs

\* a path was notified, then suppressed, then notified again less than two
\* windows after the first time, with a stop and a start of the watch in
\* between
C15_Witness ==
    \E p \in DOMAIN notified :
       \E i \in 2..Len(notified[p]) :
          /\ notified[p][i].skipped
          /\ notified[p][i].restarted
          /\ notified[p][i].at - notified[p][i - 1].at < 2 * DebounceMs

(***************************************************************************)
(* Locks and threads (checked under SpecThreads).                          *)
(***************************************************************************)
\* the mutexes thread t holds
HeldBy(t) == {l \in Locks : held[l] = t}

\* thread t stands at the lock() of a mutex another thread holds
WaitsFor(t, l) == LockAt(pc[t]) = l /\ held[l] # None /\ held[l] # t

\* C17: the callback holds no mutex while it emits a notification: the guard
\* of the debounce table is released before the emit, and the callback never
\* takes the folder, running-flag or handle mutex.
C17_EmitWithoutLock ==
    [][/\ pc[CallbackThread] = "cb_emit" => HeldBy(CallbackThread) = {}
       /\ emitted' # << >> => HeldBy(CallbackThread)' = {}
       /\ HeldBy(CallbackThread)' \subseteq {"recent_events"}]_vars

\* the callback is about to emit for a path it has just entered in the
\* table, while a command holds the flag and the handle
C17_Witness ==
    /\ pc[CallbackThread] = "cb_emit"
    /\ Head(local[CallbackThread].paths) \in DOMAIN recent_events
    /\ \E t \in CommandThreads : HeldBy(t) = {"is_watching", "watcher"}

\* no watcher_start and no watcher_stop is in progress
NoStartOrStop == \A t \in CommandThreads : local[t].cmd \notin {"start", "stop"}

\* C19: whenever no start and no stop is in progress, the running flag is
\* true iff a watch handle is stored, at most one handle exists, and a
\* running watch has a configured folder; watcher_is_running returns exactly
\* the flag and changes no state.
C19_FlagMatchesHandle ==
    [][/\ NoStartOrStop' =>
             /\ is_watching' <=> watcher' # << >>
             /\ Len(watcher') <= 1
             /\ is_watching' => folder' # None
       /\ ret'.cmd = "is_running" =>
             /\ ret'.res = Ok(is_watching)
             /\ <<watcher, folder, is_watching, recent_events>>'
                   = <<watcher, folder, is_watching, recent_events>>]_vars

\* is_running answered true after a start, a stop and another start
C19_Witness ==
    /\ ret.cmd = "is_running"
    /\ ret.res = Ok(TRUE)
    /\ NoStartOrStop
    /\ watcher # << >>
    /\ clock > 0

\* two calls wait for each other: each stands at the lock() of a mutex the
\* other one holds
MutualWait ==
    \E t, u \in CommandThreads :
       /\ t # u
       /\ \E l \in Locks : WaitsFor(t, l) /\ held[l] = u
       /\ \E l \in Locks : WaitsFor(u, l) /\ held[l] = t

\* C20: when watcher_start and watcher_stop run side by side, no interleaving
\* of their acquisitions of the is_watching and the watcher mutex leaves the
\* two calls waiting for each other forever.
C20_NoMutualWait == ~MutualWait

(***************************************************************************)
(* Poisoned mutexes (checked under SpecPoison).                            *)
(***************************************************************************)
\* the step left the four fields of WatcherState as they were
FieldsUnchanged ==
    <<watcher, folder, is_watching, recent_events>>'
       = <<watcher, folder, is_watching, recent_events>>

\* the step was a command that came to lock a poisoned mutex
CommandHitPoison ==
    \/ /\ ret'.cmd = "set_folder"
       /\ PathExists(ret'.arg) /\ PathIsDir(ret'.arg)
       /\ "folder" \in poisoned
    \/ /\ ret'.cmd = "start"
       /\ \/ "folder" \in poisoned
          \/ folder # None /\ "is_watching" \in poisoned
          \/ folder # None /\ ~is_watching /\ ret'.os = "ok" /\ "watcher" \in poisoned
    \/ /\ ret'.cmd = "stop"
       /\ {"watcher", "is_watching"} \cap poisoned # {}
    \/ /\ ret'.cmd = "is_running"
       /\ "is_watching" \in poisoned

\* the step was a callback whose debounce check came to lock the poisoned
\* mutex of the table
CallbackHitPoison ==
    /\ ret'.cmd = "callback"
    /\ "recent_events" \in poisoned
    /\ since' # since

\* watcher_set_folder, watcher_start, watcher_stop and watcher_is_running
\* return LockError, having changed nothing, when they come to a poisoned
\* mutex
CommandsSurfaceLockError ==
    [][CommandHitPoison => ret'.res = Err(LockError) /\ FieldsUnchanged]_vars

\* C18: a lock() that fails on a poisoned mutex is surfaced as LockError and
\* never passed over in silence, in set_folder, start, stop, is_running and
\* in the debounce check of the callback; the failing call changes no state.
C18_LockErrorSurfaced ==
    [][CommandHitPoison \/ CallbackHitPoison =>
          ret'.res = Err(LockError) /\ FieldsUnchanged]_vars

(***************************************************************************)
(* One raw event (checked under SpecCallback).                             *)
(***************************************************************************)
\* the extension is png, jpg or jpeg in some spelling of upper and lower case
ExtIsImage(path) ==
    path.ext \in {"png", "PNG", "Png", "jpg", "JPG", "Jpg", "jpeg", "JPEG", "Jpeg"}

KindIsCreatedOrModified(kind) == kind.tag = "Create" \/ kind.tag = "Modify"

\* the table the callback ended with, by its calls of the debounce filter
TableAfter(ev) ==
    IF ev.checks = << >> THEN ev.before ELSE ev.checks[Len(ev.checks)].after

\* the table call i of the debounce filter started from
TableBefore(ev, i) == IF i = 1 THEN ev.before ELSE ev.checks[i - 1].after

\* C3: accept(path, now) returns true and records now for the path iff the
\* path has no entry or now is at least 500 ms after its entry; otherwise it
\* returns false and leaves the table as it was; entries of other paths are
\* neither read for the decision nor changed.
C3_DebounceAccept ==
    seen # << >> =>
        LET ev == seen[1]
        IN  /\ recent_events = TableAfter(ev)
            /\ \A i \in DOMAIN ev.checks :
                  LET c == ev.checks[i]
                  IN  /\ c.before = TableBefore(ev, i)
                      /\ c.accept <=> \/ c.path \notin DOMAIN c.before
                                      \/ c.now - c.before[c.path] >= 500
                      /\ c.accept =>
                            /\ DOMAIN c.after = DOMAIN c.before \cup {c.path}
                            /\ c.after[c.path] = c.now
                      /\ ~c.accept => c.after = c.before
                      /\ \A q \in DOMAIN c.before \ {c.path} :
                            q \in DOMAIN c.after /\ c.after[q] = c.before[q]

\* a path was accepted exactly 500 ms after its last accept, next to the
\* entry of another path
C3_Witness ==
    /\ seen # << >>
    /\ \E i \in DOMAIN seen[1].checks :
          LET c == seen[1].checks[i]
          IN  /\ c.path \in DOMAIN c.before
              /\ c.now - c.before[c.path] = 500
              /\ c.accept
              /\ DOMAIN c.before # {c.path}

\* the accepted calls of the debounce filter
IsAccepted(c) == c.accept

\* C4: the callback hands to the debounce filter exactly the paths of a
\* created or modified event whose extension is png, jpg or jpeg in any case
\* (every one of them, in order, whatever happened to the paths before it) and
\* emits a notification carrying the path for exactly those the filter
\* accepted.
C4_EmitIff ==
    seen # << >> =>
        LET ev == seen[1]
            handed == [i \in DOMAIN ev.checks |-> ev.checks[i].path]
            accepted == SelectSeq(ev.checks, IsAccepted)
        IN  /\ handed = IF ev.res.ok /\ KindIsCreatedOrModified(ev.res.kind)
                        THEN SelectSeq(ev.res.paths, ExtIsImage)
                        ELSE << >>
            /\ emitted = [i \in DOMAIN accepted |-> ToStringLossy(accepted[i].path)]

\* the first path of an event was rejected for its extension in upper case
\* or missing, the second one was notified
C4_Witness ==
    /\ seen # << >>
    /\ seen[1].res.ok
    /\ Len(seen[1].res.paths) = 2
    /\ ~ExtIsImage(seen[1].res.paths[1])
    /\ seen[1].res.paths[2].ext = "JPG"
    /\ emitted = << "/photos/b.JPG" >>

\* C5 as stated: an event that is a deletion, a rename or a metadata-only
\* change emits nothing and leaves the debounce table unchanged.
C5_AsStated ==
    /\ seen # << >>
    /\ seen[1].res.ok
    /\ \/ seen[1].res.kind.tag = "Remove"
       \/ seen[1].res.kind = [tag |-> "Modify", sub |-> "Name"]
       \/ seen[1].res.kind = [tag |-> "Modify", sub |-> "Metadata"]
    => emitted = << >> /\ recent_events = seen[1].before

\* C5, amended: an event that is a deletion (or any kind other than Create
\* and Modify) emits nothing, calls the debounce filter for no path and leaves
\* the table unchanged; renames and metadata-only changes are Modify events
\* and their paths go through the extension and debounce filters.
C5_RemoveIgnored ==
    seen # << >> /\ seen[1].res.ok =>
        /\ seen[1].res.kind.tag \notin {"Create", "Modify"} =>
              /\ emitted = << >>
              /\ seen[1].checks = << >>
              /\ recent_events = seen[1].before
        /\ seen[1].res.kind.tag = "Modify" =>
              Len(seen[1].checks) = Len(SelectSeq(seen[1].res.paths, ExtIsImage))

\* a deletion of an image file the table has no entry for
C5_Witness ==
    /\ seen # << >>
    /\ seen[1].res.ok
    /\ seen[1].res.kind.tag = "Remove"
    /\ \E i \in DOMAIN seen[1].res.paths :
          /\ ExtIsImage(seen[1].res.paths[i])
          /\ seen[1].res.paths[i] \notin DOMAIN seen[1].before

(***************************************************************************)
(* One merge_hdr call (checked under SpecMerge).                           *)
(***************************************************************************)
\* merge_hdr has returned
Returned == merged # << >>

\* it failed with an error of this kind
FailedWith(kind) == Returned /\ ~merged[1].ok /\ merged[1].val.kind = kind

\* the places in ops of the operations of one sort
OpsOf(sort) == {i \in DOMAIN ops : ops[i].op = sort}

\* nothing on disk was touched: no directory made, no output file written
DiskUntouched ==
    /\ dirs = InitialDirs
    /\ files = {}
    /\ OpsOf("create_dir_all") = {} /\ OpsOf("write_png") = {} /\ OpsOf("write_exr") = {}

\* C6: with fewer than 2 or more than 5 paths merge_hdr fails with
\* InvalidArgument having decoded nothing, created no directory and written
\* no file.
C6_CountCheckedFirst ==
    Returned /\ (Len(request.paths) < 2 \/ Len(request.paths) > 5) =>
        /\ FailedWith("InvalidArgument")
        /\ ops = << >>
        /\ DiskUntouched

\* six paths, the first of them decodable, and an output directory that
\* would have had to be created
C6_Witness ==
    /\ FailedWith("InvalidArgument")
    /\ Len(request.paths) = 6
    /\ request.paths[1] = "/in/a.png"
    /\ request.output_dir = "/new/deep"

\* the sum of a sequence of numbers
RECURSIVE SeqSum(_)
SeqSum(q) == IF q = << >> THEN 0 ELSE Head(q) + SeqSum(Tail(q))

\* channel c of pixel i (row by row) of each input, in input order
InputValues(i, c) == [k \in DOMAIN request.paths |-> LoadRgb16(request.paths[k]).val.pixels[i][c]]

\* C7: every channel of every pixel of the merged raster is floor(sum / N) of
\* the N inputs' values: the sum fits the 64-bit accumulator, the quotient
\* fits 16 bits and lies between the least and the greatest input value.
C7_TruncatedMean ==
    \A a \in OpsOf("average") :
       LET image == ops[a].image
           N == Len(request.paths)
       IN  /\ N \in 2..5
           /\ Len(image.pixels) = image.width * image.height
           /\ \A i \in DOMAIN image.pixels : \A c \in 1..3 :
                 LET vals == InputValues(i, c)
                     m == image.pixels[i][c]
                 IN  /\ m * N <= SeqSum(vals) /\ SeqSum(vals) < (m + 1) * N
                     /\ BitLen(SeqSum(vals)) <= 64
                     /\ m >= 0 /\ m <= 65535
                     /\ \E k \in DOMAIN vals : vals[k] <= m
                     /\ \E k \in DOMAIN vals : vals[k] >= m

\* five inputs whose sum at one channel exceeds 16 bits and is not a
\* multiple of five
C7_Witness ==
    /\ Returned /\ merged[1].ok
    /\ Len(request.paths) = 5
    /\ \E a \in OpsOf("average") : \E i \in DOMAIN ops[a].image.pixels : \E c \in 1..3 :
          /\ SeqSum(InputValues(i, c)) > 65535
          /\ SeqSum(InputValues(i, c)) % 5 >= 3

\* every path of the request decodes
AllDecode == \A k \in DOMAIN request.paths : LoadRgb16(request.paths[k]).ok

\* the raster of path k
InputRaster(k) == LoadRgb16(request.paths[k]).val

\* C8: with 2..5 paths that all decode, of which one differs from the first
\* in width or in height, merge_hdr fails with DimensionMismatch before any
\* averaging and without creating a directory or writing a file; a merge that
\* succeeds has the width and height of every input.
C8_DimensionMismatch ==
    Returned /\ Len(request.paths) \in 2..5 /\ AllDecode =>
        /\ (\E k \in DOMAIN request.paths :
               \/ InputRaster(k).width # InputRaster(1).width
               \/ InputRaster(k).height # InputRaster(1).height)
           => /\ FailedWith("DimensionMismatch")
              /\ OpsOf("average") = {}
              /\ DiskUntouched
        /\ merged[1].ok =>
              \A k \in DOMAIN request.paths :
                 /\ InputRaster(k).width = merged[1].val.width
                 /\ InputRaster(k).height = merged[1].val.height

\* the second raster has the width of the first but not its height
C8_Witness ==
    /\ FailedWith("DimensionMismatch")
    /\ request.paths = << "/in/a.png", "/in/short.png" >>
    /\ request.output_dir = "/new/deep"

\* path k is the first one that does not decode
FirstFailure(k) ==
    /\ k \in DOMAIN request.paths
    /\ ~LoadRgb16(request.paths[k]).ok
    /\ \A j \in 1..(k - 1) : LoadRgb16(request.paths[j]).ok

\* C9: merge_hdr decodes the paths in input order up to the first one that
\* fails, returns that path's DecodeError, decodes no later path, averages
\* nothing, creates no directory and writes no file, whatever the dimensions
\* of the other inputs.
C9_FirstDecodeError ==
    Returned /\ Len(request.paths) \in 2..5 =>
        /\ \A k \in DOMAIN request.paths : FirstFailure(k) =>
              /\ merged[1] = LoadRgb16(request.paths[k])
              /\ FailedWith("DecodeError")
              /\ ops = [j \in 1..k |-> [op |-> "decode", path |-> request.paths[j]]]
              /\ DiskUntouched
        /\ AllDecode =>
              \A j \in DOMAIN request.paths :
                 ops[j] = [op |-> "decode", path |-> request.paths[j]]

\* two paths that do not decode, after two rasters of different sizes: the
\* error is the one of the first
C9_Witness ==
    /\ Returned
    /\ request.paths = << "/in/a.png", "/in/wide.png", "/in/bad.png", "/" >>
    /\ merged[1] = LoadRgb16("/in/bad.png")
    /\ Len(ops) = 3

\* the directories and the wall clock readings of the model
AllDirs == {"/", "/in", "/out", "/new", "/new/deep"}

PngFiles == {OutputPath(d, t, "png") : d \in AllDirs, t \in {0, 1}}

ExrFiles == {OutputPath(d, t, "exr") : d \in AllDirs, t \in {0, 1}}

\* C10: the PNG is written first and whether or not the HDR file is asked
\* for; the HDR file is written only when the flag is set, after the PNG write
\* has succeeded; a successful result carries an HDR path iff the flag is
\* set, with the directory and hdr_merge_<timestamp> base name of the PNG
\* path; no HDR file is ever on disk without its PNG.
C10_PngBeforeExr ==
    /\ \A i \in OpsOf("write_exr") :
          /\ request.output_exr
          /\ \E j \in OpsOf("write_png") : j < i /\ ops[j].ok
    /\ Cardinality(OpsOf("write_png")) <= 1 /\ Cardinality(OpsOf("write_exr")) <= 1
    /\ Returned /\ merged[1].ok =>
          /\ \E j \in OpsOf("write_png") :
                ops[j].ok /\ ops[j].path = merged[1].val.output_png_path
          /\ merged[1].val.output_png_path \in files
          /\ merged[1].val.output_exr_path # None <=> request.output_exr
          /\ request.output_exr =>
                /\ merged[1].val.output_exr_path \in files
                /\ \E d \in AllDirs, t \in {0, 1} :
                      /\ merged[1].val.output_png_path = OutputPath(d, t, "png")
                      /\ merged[1].val.output_exr_path = OutputPath(d, t, "exr")
          /\ ~request.output_exr => files \cap ExrFiles = {}
    /\ \A d \in AllDirs, t \in {0, 1} :
          OutputPath(d, t, "exr") \in files => OutputPath(d, t, "png") \in files

\* the HDR write failed after the PNG was written: a PNG, no HDR file, no
\* result
C10_Witness ==
    /\ FailedWith("EncodeError")
    /\ merged[1].val.cause = "exr"
    /\ files \cap PngFiles # {}
    /\ files \cap ExrFiles = {}

\* the directory the outputs of the request go to, or None
OutputDirOf ==
    IF request.output_dir # None THEN request.output_dir ELSE Parent(request.paths[1])

\* no directory was asked for and the first path has no parent
NoOutputDir ==
    /\ Len(request.paths) \in 2..5
    /\ request.output_dir = None
    /\ Parent(request.paths[1]) = None

\* the merge got as far as choosing its output directory
ReachedOutput == OpsOf("average") # {}

\* the directory is chosen and made only after every input has decoded and
\* the dimensions have been compared; it is the one asked for, else the
\* parent of the first path; it is made, with its missing ancestors, when it
\* was not there, and the outputs go into it
OutputDirRules ==
    /\ \A i \in OpsOf("create_dir_all") \cup OpsOf("write_png") :
          /\ AllDecode
          /\ \A k \in DOMAIN request.paths :
                /\ InputRaster(k).width = InputRaster(1).width
                /\ InputRaster(k).height = InputRaster(1).height
          /\ \A j \in OpsOf("decode") \cup OpsOf("average") : j < i
          /\ Cardinality(OpsOf("decode")) = Len(request.paths)
    /\ Returned /\ ReachedOutput /\ OutputDirOf # None =>
          /\ \A i \in OpsOf("create_dir_all") : ops[i].path = OutputDirOf
          /\ Cardinality(OpsOf("create_dir_all")) = IF OutputDirOf \in InitialDirs THEN 0 ELSE 1
          /\ \A i \in OpsOf("create_dir_all") :
                IF ops[i].ok THEN dirs = InitialDirs \cup {"/new", "/new/deep"}
                ELSE FailedWith("CreateDirError") /\ dirs = InitialDirs /\ files = {}
          /\ OpsOf("create_dir_all") = {} => dirs = InitialDirs
          /\ \A i \in OpsOf("write_png") :
                ops[i].path \in {OutputPath(OutputDirOf, t, "png") : t \in {0, 1}}
          /\ \A i \in OpsOf("write_exr") :
                ops[i].path \in {OutputPath(OutputDirOf, t, "exr") : t \in {0, 1}}
          /\ ~FailedWith("PathError")

\* C14: merge_hdr writes into the directory asked for, else into the parent
\* of the first path, and creates it recursively when it does not exist,
\* only after all inputs decoded and passed the dimension check; with no
\* directory asked for and a first path that has no parent it fails with
\* PathError.
C14_AsStated ==
    /\ OutputDirRules
    /\ Returned /\ NoOutputDir => FailedWith("PathError")

\* C14, amended: with no directory asked for and a first path that has no
\* parent the call fails and touches nothing on disk, with PathError only if
\* it got past decoding and the dimension check, and with the error of those
\* earlier steps otherwise; the rest as stated.
C14_OutputDir ==
    /\ OutputDirRules
    /\ Returned /\ NoOutputDir =>
          /\ ~merged[1].ok
          /\ DiskUntouched
          /\ IF ReachedOutput THEN FailedWith("PathError")
             ELSE FailedWith("DecodeError") \/ FailedWith("DimensionMismatch")

\* a directory two levels deep was asked for and made, and the merge went
\* into it
C14_Witness ==
    /\ Returned /\ merged[1].ok
    /\ request.output_dir = "/new/deep"
    /\ {"/new", "/new/deep"} \subseteq dirs
    /\ \E i \in OpsOf("create_dir_all") : ops[i].ok /\ ops[i].path = "/new/deep"

(***************************************************************************)
(* analyze_images (checked under SpecAnalyze).                             *)
(***************************************************************************)
Analyzed == stats # << >>

AnalyzeDecodes(i) == LoadRgb16(analyze_paths[i]).ok

\* C11: analyze_images fails with NoInput on an empty list; when every path
\* decodes it returns one ImageStat per path, in input order, the i-th with
\* the i-th path and that file's average luma; when some path does not
\* decode it returns the decode error of the first such path and no list.
C11_AnalyzeContract ==
    Analyzed =>
       LET r == stats[1]
           failing == {i \in DOMAIN analyze_paths : ~AnalyzeDecodes(i)}
       IN  /\ analyze_paths = << >> => ~r.ok /\ r.val.kind = "NoInput"
           /\ analyze_paths # << >> /\ failing = {} =>
                 /\ r.ok
                 /\ Len(r.val) = Len(analyze_paths)
                 /\ \A i \in DOMAIN analyze_paths :
                       /\ r.val[i].path = analyze_paths[i]
                       /\ r.val[i].average_luma
                             = CalculateAverageLuma(LoadRgb16(analyze_paths[i]).val)
           /\ failing # {} =>
                 LET first == CHOOSE i \in failing : \A j \in failing : i <= j
                 IN  /\ r = LoadRgb16(analyze_paths[first])
                     /\ ~r.ok
                     /\ r.val.kind = "DecodeError"

\* a list of distinct files that all decode has been analysed, and so has a
\* list whose second file does not decode
C11_Witness ==
    /\ Analyzed
    /\ Len(analyze_paths) = 3
    /\ \/ /\ \A i \in DOMAIN analyze_paths : AnalyzeDecodes(i)
          /\ analyze_paths[1] # analyze_paths[2]
          /\ stats[1].ok
       \/ /\ AnalyzeDecodes(1) /\ ~AnalyzeDecodes(2) /\ AnalyzeDecodes(3)
          /\ ~stats[1].ok
====
